---- MODULE Spec2Model ----
(***************************************************************************)
(* Model of the OPC UA client connection core (type Client): Connect,      *)
(* Dial, the connection monitor with its reconnect actions, the session    *)
(* calls and the subscription registry.                                    *)
(*                                                                         *)
(* A handler of the client is an operator from the client's state (a       *)
(* record of the fields of Client and of the objects it points to) and the *)
(* outcome the environment gives the call, to the state after the call.    *)
(* The fields ret, out and reqs of the record are the call's results: the  *)
(* error it returns, the object it returns and the requests it handed to   *)
(* the secure channel.  They are not stored between calls.                 *)
(***************************************************************************)
EXTENDS Naturals, Integers, Sequences, FiniteSets, TLC

\* ------------------------------------------------------------- bounds
\* connections the environment lets the client establish
MaxChan == 2
\* sessions the server creates
MaxSess == 2
\* Subscription objects created, and the largest subscription id the server assigns
MaxSub == 2
\* largest notification sequence number
MaxSeq == 2

Nil == 0
Chans == 1..MaxChan
Sessions == 1..MaxSess
Handles == 1..MaxSub
SubIDs == 1..MaxSub

\* ------------------------------------------------------------- ConnState
Closed == "Closed"
Connected == "Connected"
Connecting == "Connecting"
Disconnected == "Disconnected"
Reconnecting == "Reconnecting"
ConnState == {Closed, Connected, Connecting, Disconnected, Reconnecting}

\* ------------------------------------------------------------- reconnectAction
none == "none"
createSecureChannel == "createSecureChannel"
restoreSession == "restoreSession"
recreateSession == "recreateSession"
republishSubscriptions == "republishSubscriptions"
restoreSubscriptions == "restoreSubscriptions"
abortReconnect == "abortReconnect"
reconnectAction == {none, createSecureChannel, restoreSession, recreateSession,
                    republishSubscriptions, restoreSubscriptions, abortReconnect}

\* ------------------------------------------------------------- errors
\* the values the monitor tells apart on c.sechanErr
EOF == "EOF"
ECONNREFUSED == "ECONNREFUSED"
StatusBadSecureChannelIDInvalid == "BadSecureChannelIDInvalid"
StatusBadSessionIDInvalid == "BadSessionIDInvalid"
StatusBadSubscriptionIDInvalid == "BadSubscriptionIDInvalid"
StatusBadCertificateInvalid == "BadCertificateInvalid"
StatusBadServerNotConnected == "BadServerNotConnected"
StatusBadSessionClosed == "BadSessionClosed"
StatusBadMessageNotAvailable == "BadMessageNotAvailable"
\* any other status code carried by a *uacp.Error or returned by a service
StatusBad == "Bad"
\* an error that is neither io.EOF, ECONNREFUSED nor a *uacp.Error
OtherError == "OtherError"
\* the error of a secure channel that is not open (uasc)
ChannelError == "ChannelError"
NoError == "nil"
\* make(chan error, 1)
ErrCap == 1

UacpStatus == {StatusBadSecureChannelIDInvalid, StatusBadSessionIDInvalid,
               StatusBadSubscriptionIDInvalid, StatusBadCertificateInvalid, StatusBad}
ChannelErrors == {EOF, ECONNREFUSED, OtherError} \cup UacpStatus

VARIABLES
    autoReconnect,  \* c.cfg.AutoReconnect
    state,          \* c.state
    conn,           \* c.conn: Nil or the connection
    sechan,         \* c.sechan: Nil or the secure channel (a channel has its connection's number)
    connSt,         \* per connection: "none" (not dialed), "open", "closed"
    chanSt,         \* per secure channel: "none", "new" (not opened), "open", "dead", "closed"
    sechanErr,      \* c.sechanErr: the number of buffered errors (capacity 1); nothing
                    \* reads a buffered value before the monitor receives it, so the
                    \* value is drawn at the receive
    errClosed,      \* close(c.sechanErr) has run
    session,        \* c.session: Nil or the active session
    sessInit,       \* c.sessionOnce has run: c.session holds a (*Session)
    sessSt,         \* per session: "none", "created", "active", "closed" (at the server)
    nonce,          \* per session: where s.serverNonce comes from: "none", "create", "activate"
    monitorOnce,    \* c.monitorOnce has run
    subs,           \* c.subs: subscription id -> Subscription object (Nil: no entry)
    subId,          \* per Subscription object: SubscriptionID
    paused,         \* per Subscription object: its publish loop is paused
    lastSeq,        \* per Subscription object: lastSequenceNumber
    nextSub,        \* number of Subscription objects created
    subMux,         \* c.subMux: 0, or the Subscription object for which a caller in
                    \* Subscribe holds it exclusively (the shared holds of the monitor
                    \* last one step, but for the one of republishSubscription)
    panicked,       \* the process died of a runtime panic
    ctxDone,        \* the context given to Connect is cancelled
    mpc,            \* where the monitor goroutine is
    action,         \* monitor: action
    lastErr,        \* monitor: err, the value last received from c.sechanErr
    mlocal,         \* monitor: the locals of the subscription actions
    res             \* what the last step returned to the application that called it,
                    \* where the application is watched

cvars == <<autoReconnect, state, conn, sechan, connSt, chanSt, sechanErr, errClosed,
           session, sessInit, sessSt, nonce, monitorOnce, subs, subId, paused,
           lastSeq, nextSub, subMux, panicked>>
mvars == <<ctxDone, mpc, action, lastErr, mlocal>>
vars == <<cvars, mvars, res>>

\* The client and the objects it points to, as one value.
Client ==
    [autoReconnect |-> autoReconnect, state |-> state, conn |-> conn, sechan |-> sechan,
     connSt |-> connSt, chanSt |-> chanSt, sechanErr |-> sechanErr,
     errClosed |-> errClosed, session |-> session, sessInit |-> sessInit,
     sessSt |-> sessSt, nonce |-> nonce, monitorOnce |-> monitorOnce, subs |-> subs,
     subId |-> subId, paused |-> paused, lastSeq |-> lastSeq, nextSub |-> nextSub,
     subMux |-> subMux,
     panicked |-> panicked,
     ret |-> NoError, out |-> Nil, reqs |-> <<>>]

\* The state after a call that left the client as c.
Becomes(c) ==
    /\ autoReconnect' = c.autoReconnect
    /\ state' = c.state
    /\ conn' = c.conn
    /\ sechan' = c.sechan
    /\ connSt' = c.connSt
    /\ chanSt' = c.chanSt
    /\ sechanErr' = c.sechanErr
    /\ errClosed' = c.errClosed
    /\ session' = c.session
    /\ sessInit' = c.sessInit
    /\ sessSt' = c.sessSt
    /\ nonce' = c.nonce
    /\ monitorOnce' = c.monitorOnce
    /\ subs' = c.subs
    /\ subId' = c.subId
    /\ paused' = c.paused
    /\ lastSeq' = c.lastSeq
    /\ nextSub' = c.nextSub
    /\ subMux' = c.subMux
    /\ panicked' = c.panicked

\* NewClient
NewClient(auto) ==
    [autoReconnect |-> auto, state |-> Disconnected, conn |-> Nil, sechan |-> Nil,
     connSt |-> [k \in Chans |-> "none"], chanSt |-> [k \in Chans |-> "none"],
     sechanErr |-> 0, errClosed |-> FALSE, session |-> Nil, sessInit |-> FALSE,
     sessSt |-> [s \in Sessions |-> "none"], nonce |-> [s \in Sessions |-> "none"],
     monitorOnce |-> FALSE, subs |-> [i \in SubIDs |-> Nil],
     subId |-> [h \in Handles |-> 0], paused |-> [h \in Handles |-> FALSE],
     lastSeq |-> [h \in Handles |-> 0], nextSub |-> 0, subMux |-> 0,
     panicked |-> FALSE,
     ret |-> NoError, out |-> Nil, reqs |-> <<>>]

\* a runtime panic: the process is gone, and its memory with it
Panic(c) == [NewClient(c.autoReconnect) EXCEPT !.panicked = TRUE, !.ret = "panic",
                                               !.reqs = c.reqs]

Return(c, err) == [c EXCEPT !.ret = err]

\* The result of a call op that left the client as c: the error and the object it
\* returns, and the requests it handed to the secure channel.  arg: the argument of the
\* call, or what the server's response carried.
Result(op, arg, c) == [op |-> op, arg |-> arg, ret |-> c.ret, out |-> c.out, reqs |-> c.reqs]

\* the last step was no call of the application, or the application is not watched
NoResult == [op |-> "none", arg |-> <<>>, ret |-> NoError, out |-> Nil, reqs |-> <<>>]

\* A call returns r; watched tells whether the application's calls are watched.
Returns(watched, r) == res' = IF watched THEN r ELSE NoResult

NumConns(c) == Cardinality({k \in Chans : c.connSt[k] # "none"})
NumSessions(c) == Cardinality({s \in Sessions : c.sessSt[s] # "none"})

\* ------------------------------------------------------------- secure channel (uasc)
\* (*uacp.Conn).Close
ConnClose(c, k) == [c EXCEPT !.connSt[k] = "closed"]

\* (*SecureChannel).Close: drops the keys and closes the transport
SechanClose(c, k) == [c EXCEPT !.chanSt[k] = "closed", !.connSt[k] = "closed"]

\* (*SecureChannel).SendRequest on channel c.sechan: the request is handed to the
\* channel with the authentication token; a channel that is not open refuses it,
\* an open one answers as the server decides: o is NoError or the error.
SendRequest(c, kind, token, o) ==
    LET open == c.chanSt[c.sechan] = "open"
        err == IF open THEN o ELSE ChannelError
        c1 == [c EXCEPT !.reqs = Append(@, [kind |-> kind, token |-> token,
                                            ok |-> err = NoError])]
    IN Return(c1, err)

\* ------------------------------------------------------------- Dial
DialOutcomes == {"ok", "dialFail", "newFail", "openFail"}

\* Dial without the test of c.sechan
DialNoCheck(c, o) ==
    LET c0 == [c EXCEPT !.sessInit = TRUE, !.out = Nil]
        k == NumConns(c) + 1
        c1 == [c0 EXCEPT !.conn = k, !.connSt[k] = "open"]
    IN IF k \notin Chans THEN Return(c0, OtherError)
       ELSE IF o = "dialFail" THEN Return([c0 EXCEPT !.conn = Nil], OtherError)
       ELSE IF o = "newFail" THEN Return(ConnClose([c1 EXCEPT !.sechan = Nil], k), OtherError)
       ELSE IF o = "openFail"
            THEN Return([c1 EXCEPT !.sechan = k, !.chanSt[k] = "new"], OtherError)
       ELSE Return([c1 EXCEPT !.sechan = k, !.chanSt[k] = "open"], NoError)

Dial(c, o) ==
    LET c0 == [c EXCEPT !.sessInit = TRUE, !.out = Nil]
        k == NumConns(c) + 1
        c1 == [c0 EXCEPT !.conn = k, !.connSt[k] = "open"]
    IN IF c.sechan # Nil THEN Return(c0, "already connected")
       ELSE IF o = "dialFail" THEN Return([c0 EXCEPT !.conn = Nil], OtherError)
       ELSE IF o = "newFail" THEN Return(ConnClose([c1 EXCEPT !.sechan = Nil], k), OtherError)
       ELSE IF o = "openFail"
            THEN Return([c1 EXCEPT !.sechan = k, !.chanSt[k] = "new"], OtherError)
       ELSE Return([c1 EXCEPT !.sechan = k, !.chanSt[k] = "open"], NoError)

\* Dial can be given outcome o: a connection is only established while the
\* environment has one left
DialPossible(c, o) ==
    o \in DialOutcomes /\ (c.sechan = Nil /\ o # "dialFail" => NumConns(c) < MaxChan)

\* ------------------------------------------------------------- Send
\* Session(): the type assertion panics on a c.session that was never stored
SessionPanics(c) == ~c.sessInit

sendWithTimeout(c, kind, o) ==
    IF c.sechan = Nil THEN Return(c, StatusBadServerNotConnected)
    ELSE SendRequest(c, kind, c.session, o)

Send(c, kind, o) == sendWithTimeout(c, kind, o)

\* ------------------------------------------------------------- Read, Write
\* the status of the one result a ReadResponse or WriteResponse carries
StatusOK == "OK"
StatusBadDataTypeIDUnknown == "BadDataTypeIDUnknown"
StatusBadUserAccessDenied == "BadUserAccessDenied"
ResultStatus == {StatusOK, StatusBadDataTypeIDUnknown, StatusBadUserAccessDenied}

\* a Read that takes a result that is not OK for an error of the request
ReadFailsOnBadResult(c, o, st) ==
    LET c1 == Send(c, "Read", o)
    IN IF c1.ret # NoError THEN [c1 EXCEPT !.out = <<>>]
       ELSE IF st # StatusOK THEN [c1 EXCEPT !.out = <<>>, !.ret = st]
       ELSE [c1 EXCEPT !.out = <<st>>]

\* Read: o is what happens to the ReadRequest, st the status of the result in the
\* response; out is the response (its results), empty for a nil response
Read(c, o, st) ==
    LET c1 == Send(c, "Read", o)
    IN IF c1.ret # NoError THEN [c1 EXCEPT !.out = <<>>]
       ELSE [c1 EXCEPT !.out = <<st>>]

\* Write, likewise
Write(c, o, st) ==
    LET c1 == Send(c, "Write", o)
    IN IF c1.ret # NoError THEN [c1 EXCEPT !.out = <<>>]
       ELSE [c1 EXCEPT !.out = <<st>>]

\* ------------------------------------------------------------- sessions
closeSession(c, s, o) ==
    IF s = Nil THEN Return(c, NoError)
    ELSE LET c1 == Send(c, "CloseSession", o)
         IN IF c1.ret = NoError /\ c.session # Nil
            THEN [c1 EXCEPT !.sessSt[c.session] = "closed"]
            ELSE c1

CloseSession(c, o) ==
    IF SessionPanics(c) THEN Panic(c)
    ELSE LET c1 == closeSession(c, c.session, o)
         IN IF c1.ret # NoError THEN c1
            ELSE [c1 EXCEPT !.session = Nil]

DetachSession(c) ==
    IF SessionPanics(c) THEN Panic(c)
    ELSE [c EXCEPT !.session = Nil, !.out = c.session, !.ret = NoError]

CreateOutcomes == {"ok", "sendErr", "sigFail"}

CreateSession(c, o) ==
    LET c0 == [c EXCEPT !.out = Nil]
        c1 == SendRequest(c0, "CreateSession", Nil, IF o = "sendErr" THEN StatusBad ELSE NoError)
        s == NumSessions(c) + 1
    IN IF c.sechan = Nil THEN Return(c0, StatusBadServerNotConnected)
       ELSE IF c1.ret # NoError THEN c1
       ELSE IF o = "sigFail" THEN Return([c1 EXCEPT !.sessSt[s] = "created"], NoError)
       ELSE [c1 EXCEPT !.sessSt[s] = "created", !.nonce[s] = "create", !.out = s]

CreatePossible(c, o) ==
    o \in CreateOutcomes /\ (c.sechan # Nil /\ c.chanSt[c.sechan] = "open" /\ o # "sendErr"
                              => NumSessions(c) < MaxSess)

\* o: what happens to the ActivateSessionRequest; oc: to the CloseSessionRequest for the
\* previous session; oc2: to the CloseSessionRequest sent when that one fails
ActivateOutcomes == {"ok", "sigErr", "tokenErr", "sendErr"}

ActivateSession(c, s, o, oc, oc2) ==
    LET c0 == [c EXCEPT !.out = Nil]
        c1 == SendRequest(c0, "ActivateSession", s,
                          IF o = "sendErr" THEN StatusBad ELSE NoError)
        c2 == [c1 EXCEPT !.nonce[s] = "activate", !.sessSt[s] = "active"]
        c3 == CloseSession(c2, oc)
    IN IF c.sechan = Nil THEN Return(c0, StatusBadServerNotConnected)
       ELSE IF s = Nil THEN Panic(c0)
       ELSE IF o = "sigErr" THEN Return(c0, NoError)
       ELSE IF o = "tokenErr" THEN Return(c0, OtherError)
       ELSE IF c1.ret # NoError THEN c1
       ELSE IF c3.ret # NoError THEN Return(closeSession(c3, s, oc2), c3.ret)
       ELSE [c3 EXCEPT !.session = s]

\* ------------------------------------------------------------- Close
Close(c, o) ==
    LET k == c.conn
        c1 == CloseSession(c, o)
        c2 == [c1 EXCEPT !.state = Closed]
        c3 == IF c2.sechan # Nil THEN SechanClose(c2, c2.sechan) ELSE c2
        c4 == [c3 EXCEPT !.errClosed = TRUE]
    IN IF c1.panicked THEN c1
       ELSE IF c.errClosed THEN Panic(c3)
       ELSE IF k = Nil THEN Panic(c4)
       ELSE Return(ConnClose(c4, k), NoError)

\* ------------------------------------------------------------- Connect
Connect(c, od, os, oa, oc) ==
    LET c1 == Dial([c EXCEPT !.state = Connecting], od)
        c2 == CreateSession(c1, os)
        c3 == ActivateSession(c2, c2.out, oa, oc, oc)
    IN IF c.sechan # Nil THEN Return(c, "already connected")
       ELSE IF c1.ret # NoError THEN c1
       ELSE IF c2.ret # NoError THEN Return(Close(c2, oc), c2.ret)
       ELSE IF c3.panicked THEN c3
       ELSE IF c3.ret # NoError THEN Return(Close(c3, oc), c3.ret)
       ELSE [c3 EXCEPT !.state = Connected, !.monitorOnce = TRUE]

\* ------------------------------------------------------------- subscriptions
SubscribeOutcomes == {"ok", "sendErr", "badService"}

\* Subscribe that does not look the id up in c.subs
SubscribeNoLookup(c, o, rid) ==
    LET c0 == [c EXCEPT !.out = Nil]
        c1 == Send(c0, "CreateSubscription", IF o = "sendErr" THEN StatusBad ELSE NoError)
        h == c.nextSub + 1
        sub == [c1 EXCEPT !.nextSub = h, !.subId[h] = rid, !.paused[h] = FALSE,
                          !.lastSeq[h] = 0]
    IN IF c1.ret # NoError THEN c1
       ELSE IF o = "badService" THEN Return(c1, StatusBad)
       ELSE IF rid = 0 THEN Return(c1, StatusBadSubscriptionIDInvalid)
       ELSE [sub EXCEPT !.subs[rid] = h, !.out = h]

\* rid: the SubscriptionID of the CreateSubscriptionResponse
Subscribe(c, o, rid) ==
    LET c0 == [c EXCEPT !.out = Nil]
        c1 == Send(c0, "CreateSubscription", IF o = "sendErr" THEN StatusBad ELSE NoError)
        h == c.nextSub + 1
        sub == [c1 EXCEPT !.nextSub = h, !.subId[h] = rid, !.paused[h] = FALSE,
                          !.lastSeq[h] = 0]
    IN IF c1.ret # NoError THEN c1
       ELSE IF o = "badService" THEN Return(c1, StatusBad)
       ELSE IF rid = 0 \/ c.subs[rid] # Nil THEN Return(c1, StatusBadSubscriptionIDInvalid)
       ELSE [sub EXCEPT !.subs[rid] = h, !.out = h]

SubscribePossible(c, o) ==
    o \in SubscribeOutcomes /\ c.nextSub < MaxSub

\* Subscribe as the other goroutines see it, in two steps.  Up to c.subMux.Lock(): the
\* request, the Subscription object, the lock
SubscribeLock(c, o, rid) ==
    LET c0 == [c EXCEPT !.out = Nil]
        c1 == Send(c0, "CreateSubscription", IF o = "sendErr" THEN StatusBad ELSE NoError)
        h == c.nextSub + 1
    IN IF c1.ret # NoError THEN c1
       ELSE IF o = "badService" THEN Return(c1, StatusBad)
       ELSE [c1 EXCEPT !.nextSub = h, !.subId[h] = rid, !.paused[h] = FALSE,
                       !.lastSeq[h] = 0, !.subMux = h]

\* and from the lock on: the lookup, the entry, c.subMux.Unlock(); the object of a
\* call that fails is let go
SubscribeUnlock(c) ==
    LET h == c.subMux
        rid == c.subId[h]
        c1 == [c EXCEPT !.subMux = 0, !.out = Nil]
    IN IF rid = 0 \/ c.subs[rid] # Nil
       THEN Return([c1 EXCEPT !.nextSub = h - 1, !.subId[h] = 0],
                   StatusBadSubscriptionIDInvalid)
       ELSE [c1 EXCEPT !.subs[rid] = h, !.out = h]

\* The SubscriptionID of a CreateSubscriptionResponse: 0, an id of the registry, or an
\* id that is not in it; the ids not in the registry are alike, the least stands for them.
ResponseIDs(c) ==
    LET free == {i \in SubIDs : c.subs[i] = Nil}
    IN {0} \cup {i \in SubIDs : c.subs[i] # Nil}
           \cup {i \in free : \A j \in free : i <= j}

\* registerSubscription that does not look the id up in c.subs
registerSubscriptionNoLookup(c, h) ==
    IF c.subId[h] = 0 THEN Return(c, StatusBadSubscriptionIDInvalid)
    ELSE Return([c EXCEPT !.subs[c.subId[h]] = h], NoError)

registerSubscription(c, h) ==
    IF c.subId[h] = 0 THEN Return(c, StatusBadSubscriptionIDInvalid)
    ELSE IF c.subs[c.subId[h]] # Nil THEN Return(c, "already registered")
    ELSE Return([c EXCEPT !.subs[c.subId[h]] = h], NoError)

\* forgetSubscription that leaves the entry in place
forgetSubscriptionNone(c, id) == c

forgetSubscription(c, id) ==
    IF id \in SubIDs THEN [c EXCEPT !.subs[id] = Nil] ELSE c

\* (*Subscription).Cancel: the subscription is deleted at the server and forgotten; the
\* application lets go of the object
SubCancel(c, h) ==
    [forgetSubscription(c, c.subId[h]) EXCEPT !.subId[h] = 0, !.paused[h] = FALSE,
                                              !.lastSeq[h] = 0]

\* the ids of the registry
Registered(c) == {i \in SubIDs : c.subs[i] # Nil}

\* (*Subscription).pause, (*Subscription).resume
SubPause(c, h) == [c EXCEPT !.paused[h] = TRUE]
SubResume(c, h) == [c EXCEPT !.paused[h] = FALSE]

RECURSIVE PauseAll(_, _)
PauseAll(c, ids) ==
    IF ids = {} THEN c
    ELSE LET i == CHOOSE x \in ids : TRUE
         IN PauseAll(SubPause(c, c.subs[i]), ids \ {i})

RECURSIVE ResumeAll(_, _)
ResumeAll(c, ids) ==
    IF ids = {} THEN c
    ELSE LET i == CHOOSE x \in ids : TRUE
         IN ResumeAll(SubResume(c, c.subs[i]), ids \ {i})

\* pauseSubscriptions that returns before its loop
pauseSubscriptionsNone(c) == c

pauseSubscriptions(c) == PauseAll(c, Registered(c))

\* resumeSubscriptions that returns before its loop
resumeSubscriptionsNone(c) == c

resumeSubscriptions(c) == ResumeAll(c, Registered(c))

\* the orders in which a set of ids can be listed
RECURSIVE Orders(_)
Orders(S) ==
    IF S = {} THEN {<<>>}
    ELSE UNION {{<<x>> \o r : r \in Orders(S \ {x})} : x \in S}

\* subscriptionIDs: the keys of c.subs, in the order the map iteration gives them
subscriptionIDs(c) == Orders(Registered(c))

\* (*Subscription).restore: a new subscription with the parameters of the old one; the
\* object is registered under the id the server gives it
RestoreOutcomes == {"ok", "sendErr", "itemsErr"}

SubRestore(c, h, o, rid) ==
    LET c1 == Send(c, "CreateSubscription", IF o = "sendErr" THEN StatusBad ELSE NoError)
        c2 == forgetSubscription(c1, c.subId[h])
        c3 == registerSubscription([c2 EXCEPT !.subId[h] = rid], h)
        c4 == Send(c3, "CreateMonitoredItems", IF o = "itemsErr" THEN StatusBad ELSE NoError)
    IN IF c1.ret # NoError THEN c1
       ELSE IF c3.ret # NoError THEN c3
       ELSE c4

\* the publish path: a PublishResponse for subscription h carries the next sequence number
Publish(c, h) == [c EXCEPT !.lastSeq[h] = @ + 1]

\* ------------------------------------------------------------- republish
IsStatusCode(e) ==
    e \in UacpStatus \cup {StatusBadServerNotConnected, StatusBadSessionClosed,
                           StatusBadMessageNotAvailable}

\* what a RepublishRequest can come back with
RepublishOutcomes ==
    {NoError, StatusBadMessageNotAvailable, StatusBadSessionIDInvalid,
     StatusBadSubscriptionIDInvalid, StatusBad, OtherError}

\* sendRepublishRequests, its first statements: seq is loaded, and the deferred store
\* is given the value seq has now
sendRepublishRequestsLoad(c, h) ==
    [sub |-> h, seq |-> c.lastSeq[h], deferred |-> c.lastSeq[h]]

\* one turn of the loop without the test of the session
sendRepublishRequestsTurnNoSessionTest(c, o) ==
    LET c1 == Send(c, "Republish", o)
    IN IF c1.ret = StatusBadMessageNotAvailable THEN Return(c1, NoError)
       ELSE IF c1.ret # NoError THEN c1
       ELSE Return(c1, "continue")

\* sendRepublishRequests, one turn of its loop: ret is "continue" or what the function
\* returns
sendRepublishRequestsTurn(c, o) ==
    IF c.session = Nil THEN Return(c, StatusBadSessionClosed)
    ELSE LET c1 == Send(c, "Republish", o)
         IN IF c1.ret = StatusBadMessageNotAvailable THEN Return(c1, NoError)
            ELSE IF c1.ret # NoError THEN c1
            ELSE Return(c1, "continue")

\* sendRepublishRequests, on return: the deferred atomic.StoreUint32
sendRepublishRequestsReturn(c, l) ==
    [c EXCEPT !.lastSeq[l.sub] = l.deferred]

\* republishSubscription: what it makes of the error of sendRepublishRequests
republishSubscriptionResult(err) ==
    IF err = NoError THEN NoError
    ELSE IF ~IsStatusCode(err) THEN err
    ELSE IF err = StatusBadSessionIDInvalid THEN NoError
    ELSE IF err = StatusBadSubscriptionIDInvalid THEN "republish failed"
    ELSE NoError

\* ------------------------------------------------------------- transfer
\* The restoreSubscriptions action, from the TransferSubscriptionsResponse on: n results,
\* st[i] the status of result i, av[i] whether its AvailableSequenceNumbers has an
\* element at the index of the result.  fault: an index out of range.
TransferStatus == {"OK", StatusBadSubscriptionIDInvalid}

RECURSIVE SplitTransfer(_, _, _, _, _)
SplitTransfer(ids, n, st, av, i) ==
    IF i > n THEN [fault |-> FALSE, toRepublish |-> <<>>, toRestore |-> <<>>]
    ELSE IF i > Len(ids) THEN [fault |-> TRUE, toRepublish |-> <<>>, toRestore |-> <<>>]
    ELSE IF st[i] # StatusBadSubscriptionIDInvalid /\ ~av[i]
         THEN [fault |-> TRUE, toRepublish |-> <<>>, toRestore |-> <<>>]
    ELSE LET r == SplitTransfer(ids, n, st, av, i + 1)
         IN IF st[i] = StatusBadSubscriptionIDInvalid
            THEN [r EXCEPT !.toRestore = <<ids[i]>> \o @]
            ELSE [r EXCEPT !.toRepublish = <<ids[i]>> \o @]

\* ------------------------------------------------------------- monitor
\* InitialAction with the case of StatusBadSessionIDInvalid left out: it falls to the default
InitialActionNoSessionCase(err) ==
    IF err = EOF THEN createSecureChannel
    ELSE IF err = ECONNREFUSED THEN abortReconnect
    ELSE IF err \in UacpStatus
         THEN IF err = StatusBadSecureChannelIDInvalid THEN createSecureChannel
              ELSE IF err = StatusBadSubscriptionIDInvalid THEN restoreSubscriptions
              ELSE createSecureChannel
    ELSE createSecureChannel

\* the action the monitor chooses for the error it received
InitialAction(err) ==
    IF err = EOF THEN createSecureChannel
    ELSE IF err = ECONNREFUSED THEN abortReconnect
    ELSE IF err \in UacpStatus
         THEN IF err = StatusBadSecureChannelIDInvalid THEN createSecureChannel
              ELSE IF err = StatusBadSessionIDInvalid THEN recreateSession
              ELSE IF err = StatusBadSubscriptionIDInvalid THEN restoreSubscriptions
              ELSE createSecureChannel
    ELSE createSecureChannel

\* toRepublish, done: the list of ids the republish loop ranges over and how many of
\* them it has done
NoLocals ==
    [toRepublish |-> <<>>, done |-> 0, toRestore |-> <<>>, sub |-> Nil, seq |-> 0,
     deferred |-> 0]

\* The client is c.
Is(c) ==
    /\ autoReconnect = c.autoReconnect
    /\ state = c.state
    /\ conn = c.conn
    /\ sechan = c.sechan
    /\ connSt = c.connSt
    /\ chanSt = c.chanSt
    /\ sechanErr = c.sechanErr
    /\ errClosed = c.errClosed
    /\ session = c.session
    /\ sessInit = c.sessInit
    /\ sessSt = c.sessSt
    /\ nonce = c.nonce
    /\ monitorOnce = c.monitorOnce
    /\ subs = c.subs
    /\ subId = c.subId
    /\ paused = c.paused
    /\ lastSeq = c.lastSeq
    /\ nextSub = c.nextSub
    /\ subMux = c.subMux
    /\ panicked = c.panicked

Init ==
    /\ \E auto \in BOOLEAN : Is(NewClient(auto))
    /\ ctxDone = FALSE
    /\ mpc = "off"
    /\ action = none
    /\ lastErr = NoError
    /\ mlocal = NoLocals
    /\ res = NoResult

\* select: case <-ctx.Done()
MonitorCtxDone ==
    /\ ~panicked /\ mpc = "wait" /\ ctxDone
    /\ mpc' = "ret"
    /\ UNCHANGED <<cvars, ctxDone, action, lastErr, mlocal>>
    /\ res' = NoResult

\* select: case err, ok := <-c.sechanErr, with the channel closed and empty
MonitorErrClosed ==
    /\ ~panicked /\ mpc = "wait" /\ sechanErr = 0 /\ errClosed
    /\ mpc' = "ret"
    /\ UNCHANGED <<cvars, ctxDone, action, lastErr, mlocal>>
    /\ res' = NoResult

\* MonitorReceive without the test of c.cfg.AutoReconnect
MonitorReceiveAlwaysReconnect ==
    /\ ~panicked /\ mpc = "wait" /\ sechanErr > 0
    /\ \E err \in ChannelErrors :
         LET c1 == [Client EXCEPT !.sechanErr = @ - 1]
         IN /\ lastErr' = err
            /\ IF err = EOF /\ state = Closed
               THEN /\ Becomes(c1) /\ mpc' = "ret" /\ UNCHANGED action
               ELSE /\ Becomes([c1 EXCEPT !.state = Disconnected])
                    /\ action' = InitialAction(err) /\ mpc' = "pause"
    /\ UNCHANGED <<ctxDone, mlocal>>
    /\ res' = NoResult

\* select: case err, ok := <-c.sechanErr, with a value: up to the choice of the action
MonitorReceive ==
    /\ ~panicked /\ mpc = "wait" /\ sechanErr > 0
    /\ \E err \in ChannelErrors :
         LET c1 == [Client EXCEPT !.sechanErr = @ - 1]
         IN /\ lastErr' = err
            /\ IF err = EOF /\ state = Closed
               THEN /\ Becomes(c1) /\ mpc' = "ret" /\ UNCHANGED action
               ELSE /\ Becomes([c1 EXCEPT !.state = Disconnected])
                    /\ IF ~autoReconnect
                       THEN action' = abortReconnect /\ mpc' = "ret"
                       ELSE action' = InitialAction(err) /\ mpc' = "pause"
    /\ UNCHANGED <<ctxDone, mlocal>>
    /\ res' = NoResult

\* return without the deferred store
MonitorReturnNoStore ==
    /\ ~panicked /\ mpc = "ret"
    /\ mpc' = "stopped"
    /\ lastErr' = NoError
    /\ UNCHANGED <<cvars, ctxDone, action, mlocal>>
    /\ res' = NoResult

\* return: the deferred c.state.Store(Closed)
MonitorReturn ==
    /\ ~panicked /\ mpc = "ret"
    /\ Becomes([Client EXCEPT !.state = Closed])
    /\ mpc' = "stopped"
    /\ lastErr' = NoError
    /\ UNCHANGED <<ctxDone, action, mlocal>>
    /\ res' = NoResult

\* c.state.Store(Disconnected); c.pauseSubscriptions(ctx)
MonitorPause ==
    /\ ~panicked /\ mpc = "pause" /\ subMux = 0
    /\ Becomes(pauseSubscriptions([Client EXCEPT !.state = Disconnected]))
    /\ mpc' = "loop"
    /\ lastErr' = NoError
    /\ UNCHANGED <<ctxDone, action, mlocal>>
    /\ res' = NoResult

\* for action != none: select case <-ctx.Done()
MonitorLoopCtxDone ==
    /\ ~panicked /\ mpc = "loop" /\ action # none /\ ctxDone
    /\ mpc' = "ret"
    /\ UNCHANGED <<cvars, ctxDone, action, lastErr, mlocal>>
    /\ res' = NoResult

\* case createSecureChannel, up to the Dial loop
createSecureChannelClose(c) ==
    IF c.conn = Nil \/ c.sechan = Nil THEN Panic(c)
    ELSE [SechanClose(ConnClose(c, c.conn), c.sechan) EXCEPT !.sechan = Nil,
                                                             !.state = Reconnecting]

MonitorCreateSecureChannel ==
    /\ ~panicked /\ mpc = "loop" /\ action = createSecureChannel /\ ~ctxDone
    /\ Becomes(createSecureChannelClose(Client))
    /\ mpc' = "dial"
    /\ UNCHANGED <<ctxDone, action, lastErr, mlocal>>
    /\ res' = NoResult

\* case createSecureChannel, one turn of the Dial loop: Dial and, when it fails, the
\* select on ctx.Done() and time.After(c.cfg.ReconnectInterval)
MonitorDial ==
    /\ ~panicked /\ mpc = "dial"
    /\ \E o \in DialOutcomes :
         /\ DialPossible(Client, o)
         /\ LET c1 == Dial(Client, o)
            IN /\ Becomes(c1)
               /\ IF c1.ret = NoError THEN mpc' = "loop" /\ action' = restoreSession
                  ELSE IF ctxDone THEN mpc' = "ret" /\ UNCHANGED action
                  ELSE UNCHANGED <<mpc, action>>
    /\ UNCHANGED <<ctxDone, lastErr, mlocal>>
    /\ res' = NoResult

\* case restoreSession
MonitorRestoreSession ==
    /\ ~panicked /\ mpc = "loop" /\ action = restoreSession /\ ~ctxDone
    /\ IF session = Nil
       THEN action' = recreateSession /\ UNCHANGED cvars
       ELSE \E o \in ActivateOutcomes :
              LET c1 == DetachSession(Client)
                  c2 == ActivateSession(c1, c1.out, o, NoError, NoError)
              IN /\ Becomes(c2)
                 /\ action' = IF c2.ret # NoError THEN recreateSession
                              ELSE republishSubscriptions
    /\ UNCHANGED <<ctxDone, mpc, lastErr, mlocal>>
    /\ res' = NoResult

\* MonitorRecreateSession that goes on to republishSubscriptions, as restoreSession does
MonitorRecreateSessionRepublish ==
    /\ ~panicked /\ mpc = "loop" /\ action = recreateSession /\ ~ctxDone
    /\ \E os \in CreateOutcomes, oa \in ActivateOutcomes, oc \in {NoError, StatusBad} :
         /\ CreatePossible(Client, os)
         /\ os # "ok" => oa = "ok"
         /\ oa # "ok" \/ session = Nil => oc = NoError
         /\ LET c1 == CreateSession(Client, os)
                c2 == ActivateSession(c1, c1.out, oa, oc, oc)
            IN IF c1.ret # NoError
               THEN Becomes(c1) /\ action' = createSecureChannel
               ELSE /\ Becomes(c2)
                    /\ action' = IF c2.ret # NoError THEN createSecureChannel
                                 ELSE republishSubscriptions
    /\ UNCHANGED <<ctxDone, mpc, lastErr, mlocal>>
    /\ res' = NoResult

\* case recreateSession
MonitorRecreateSession ==
    /\ ~panicked /\ mpc = "loop" /\ action = recreateSession /\ ~ctxDone
    /\ \E os \in CreateOutcomes, oa \in ActivateOutcomes, oc \in {NoError, StatusBad} :
         /\ CreatePossible(Client, os)
         /\ os # "ok" => oa = "ok"
         /\ oa # "ok" \/ session = Nil => oc = NoError
         /\ LET c1 == CreateSession(Client, os)
                c2 == ActivateSession(c1, c1.out, oa, oc, oc)
            IN IF c1.ret # NoError
               THEN Becomes(c1) /\ action' = createSecureChannel
               ELSE /\ Becomes(c2)
                    /\ action' = IF c2.ret # NoError THEN createSecureChannel
                                 ELSE restoreSubscriptions
    /\ UNCHANGED <<ctxDone, mpc, lastErr, mlocal>>
    /\ res' = NoResult

\* case republishSubscriptions: the ids to republish
MonitorRepublishSubscriptions ==
    /\ ~panicked /\ mpc = "loop" /\ action = republishSubscriptions /\ ~ctxDone /\ subMux = 0
    /\ \E ids \in subscriptionIDs(Client) :
         mlocal' = [NoLocals EXCEPT !.toRepublish = ids]
    /\ mpc' = "republish"
    /\ UNCHANGED <<cvars, ctxDone, action, lastErr>>
    /\ res' = NoResult

\* case restoreSubscriptions: the transfer and the two lists
MonitorTransfer ==
    /\ ~panicked /\ mpc = "loop" /\ action = restoreSubscriptions /\ ~ctxDone /\ subMux = 0
    /\ \E ids \in subscriptionIDs(Client) :
         \/ LET c1 == Send(Client, "TransferSubscriptions", StatusBad)
            IN /\ Becomes(c1)
               /\ mlocal' = [NoLocals EXCEPT !.toRestore = ids]
               /\ mpc' = "republish"
         \/ /\ sechan # Nil /\ chanSt[sechan] = "open"
            /\ \E n \in 0..(Len(ids) + 1) :
                 \E st \in [1..n -> TransferStatus], av \in [1..n -> BOOLEAN] :
                   /\ \A i \in 1..n : st[i] = StatusBadSubscriptionIDInvalid => av[i]
                   /\ LET c1 == Send(Client, "TransferSubscriptions", NoError)
                          r == SplitTransfer(ids, n, st, av, 1)
                      IN IF r.fault
                         THEN Becomes(Panic(c1)) /\ UNCHANGED <<mlocal, mpc>>
                         ELSE /\ Becomes(c1)
                              /\ mlocal' = [NoLocals EXCEPT !.toRepublish = r.toRepublish,
                                                            !.toRestore = r.toRestore]
                              /\ mpc' = "republish"
    /\ UNCHANGED <<ctxDone, action, lastErr>>
    /\ res' = NoResult

\* republishSubscription(id) for the next id: the lookup and the start of
\* sendRepublishRequests; with no id left, on to resumeSubscriptions
MonitorRepublishNext ==
    /\ ~panicked /\ mpc = "republish"
    /\ mlocal.done < Len(mlocal.toRepublish) => subMux = 0
    /\ IF mlocal.done = Len(mlocal.toRepublish)
       THEN mpc' = "resume" /\ UNCHANGED mlocal
       ELSE LET id == mlocal.toRepublish[mlocal.done + 1]
            IN IF subs[id] = Nil
               THEN /\ mlocal' = [mlocal EXCEPT !.done = @ + 1,
                                                !.toRestore = Append(@, id)]
                    /\ UNCHANGED mpc
               ELSE LET l == sendRepublishRequestsLoad(Client, subs[id])
                    IN /\ mlocal' = [mlocal EXCEPT !.sub = l.sub, !.seq = l.seq,
                                                   !.deferred = l.deferred]
                       /\ mpc' = "rp_loop"
    /\ UNCHANGED <<cvars, ctxDone, action, lastErr>>
    /\ res' = NoResult

\* MonitorRepublishTurnOn that gives every id of the republish loop to the restore
\* when one republish fails
MonitorRepublishTurnOnRestoreAll(o) ==
    /\ ~panicked /\ mpc = "rp_loop"
    /\ o \in RepublishOutcomes
    /\ o = NoError => mlocal.seq < MaxSeq
    /\ LET c1 == sendRepublishRequestsTurn(Client, o)
           id == mlocal.toRepublish[mlocal.done + 1]
       IN IF c1.ret = "continue"
          THEN /\ Becomes(c1)
               /\ mlocal' = [mlocal EXCEPT !.seq = @ + 1]
               /\ UNCHANGED mpc
          ELSE /\ Becomes(sendRepublishRequestsReturn(c1, mlocal))
               /\ mlocal' = [mlocal EXCEPT
                    !.done = @ + 1,
                    !.toRestore = IF republishSubscriptionResult(c1.ret) # NoError
                                  THEN @ \o mlocal.toRepublish ELSE @,
                    !.sub = Nil, !.seq = 0, !.deferred = 0]
               /\ mpc' = "republish"
    /\ UNCHANGED <<ctxDone, action, lastErr>>
    /\ res' = NoResult

\* one turn of the loop of sendRepublishRequests and, when it returns, the rest of
\* republishSubscription
MonitorRepublishTurnOn(o) ==
    /\ ~panicked /\ mpc = "rp_loop"
    /\ o \in RepublishOutcomes
    /\ o = NoError => mlocal.seq < MaxSeq
    /\ LET c1 == sendRepublishRequestsTurn(Client, o)
           id == mlocal.toRepublish[mlocal.done + 1]
       IN IF c1.ret = "continue"
          THEN /\ Becomes(c1)
               /\ mlocal' = [mlocal EXCEPT !.seq = @ + 1]
               /\ UNCHANGED mpc
          ELSE /\ Becomes(sendRepublishRequestsReturn(c1, mlocal))
               /\ mlocal' = [mlocal EXCEPT
                    !.done = @ + 1,
                    !.toRestore = IF republishSubscriptionResult(c1.ret) # NoError
                                  THEN Append(@, id) ELSE @,
                    !.sub = Nil, !.seq = 0, !.deferred = 0]
               /\ mpc' = "republish"
    /\ UNCHANGED <<ctxDone, action, lastErr>>
    /\ res' = NoResult

\* the server answers the RepublishRequest of this turn in one of the ways it can
MonitorRepublishTurn == \E o \in RepublishOutcomes : MonitorRepublishTurnOn(o)

\* c.resumeSubscriptions(ctx); nothing reads the list of the republish loop any more
MonitorResume ==
    /\ ~panicked /\ mpc = "resume" /\ subMux = 0
    /\ Becomes(resumeSubscriptions(Client))
    /\ mpc' = "restore"
    /\ mlocal' = [mlocal EXCEPT !.toRepublish = <<>>, !.done = 0]
    /\ UNCHANGED <<ctxDone, action, lastErr>>
    /\ res' = NoResult

\* MonitorRestore that falls back to restoreSession when the restore fails
MonitorRestoreToRestoreSession ==
    /\ ~panicked /\ mpc = "restore"
    /\ IF mlocal.toRestore = <<>>
       THEN /\ Becomes([Client EXCEPT !.state = Connected])
            /\ action' = none /\ mpc' = "drain" /\ mlocal' = NoLocals
       ELSE LET id == Head(mlocal.toRestore)
            IN IF subs[id] = Nil
               THEN /\ mlocal' = [mlocal EXCEPT !.toRestore = Tail(@)]
                    /\ UNCHANGED <<cvars, action, mpc>>
               ELSE \E o \in RestoreOutcomes, rid \in ResponseIDs(Client) :
                      LET c1 == SubRestore(Client, subs[id], o, rid)
                      IN IF c1.ret # NoError
                         THEN /\ Becomes(pauseSubscriptions(c1))
                              /\ action' = restoreSession /\ mpc' = "loop"
                              /\ mlocal' = NoLocals
                         ELSE /\ Becomes(c1)
                              /\ mlocal' = [mlocal EXCEPT !.toRestore = Tail(@)]
                              /\ UNCHANGED <<action, mpc>>
    /\ UNCHANGED <<ctxDone, lastErr>>
    /\ res' = NoResult

\* c.restoreSubscriptions(subsToRestore), one id; with no id left, the action is done
MonitorRestore ==
    /\ ~panicked /\ mpc = "restore"
    /\ IF mlocal.toRestore = <<>>
       THEN /\ Becomes([Client EXCEPT !.state = Connected])
            /\ action' = none /\ mpc' = "drain" /\ mlocal' = NoLocals
       ELSE LET id == Head(mlocal.toRestore)
            IN \/ IF subs[id] = Nil
                  THEN /\ mlocal' = [mlocal EXCEPT !.toRestore = Tail(@)]
                       /\ UNCHANGED <<cvars, action, mpc>>
                  ELSE \E o \in RestoreOutcomes, rid \in ResponseIDs(Client) :
                         LET c1 == SubRestore(Client, subs[id], o, rid)
                         IN IF c1.ret # NoError
                            THEN /\ subMux = 0
                                 /\ Becomes(pauseSubscriptions(c1))
                                 /\ action' = recreateSession /\ mpc' = "loop"
                                 /\ mlocal' = NoLocals
                            ELSE /\ Becomes(c1)
                                 /\ mlocal' = [mlocal EXCEPT !.toRestore = Tail(@)]
                                 /\ UNCHANGED <<action, mpc>>
               \* c.subs is read without c.subMux: when a caller is at its write, the
               \* runtime may end the process (concurrent map read and map write)
               \/ /\ subMux # 0
                  /\ Becomes(Panic(Client))
                  /\ UNCHANGED <<action, mpc, mlocal>>
    /\ UNCHANGED <<ctxDone, lastErr>>
    /\ res' = NoResult

\* case abortReconnect
MonitorAbort ==
    /\ ~panicked /\ mpc = "loop" /\ action = abortReconnect /\ ~ctxDone
    /\ mpc' = "ret"
    /\ UNCHANGED <<cvars, ctxDone, action, lastErr, mlocal>>
    /\ res' = NoResult

\* after the recovery, back to the select with the buffered errors left in place
MonitorDrainNone ==
    /\ ~panicked /\ mpc = "drain"
    /\ mpc' = "wait"
    /\ UNCHANGED <<cvars, ctxDone, action, lastErr, mlocal>>
    /\ res' = NoResult

\* for len(c.sechanErr) > 0 { <-c.sechanErr }
MonitorDrain ==
    /\ ~panicked /\ mpc = "drain"
    /\ Becomes([Client EXCEPT !.sechanErr = 0])
    /\ mpc' = "wait"
    /\ UNCHANGED <<ctxDone, action, lastErr, mlocal>>
    /\ res' = NoResult

\* the steps of the monitor that every run of the client can take
Monitor ==
    \/ MonitorReceive \/ MonitorReturn \/ MonitorPause
    \/ MonitorCreateSecureChannel \/ MonitorDial
    \/ MonitorRestoreSession \/ MonitorRecreateSession
    \/ MonitorRepublishSubscriptions \/ MonitorTransfer
    \/ MonitorRepublishNext \/ MonitorResume
    \/ MonitorRestore \/ MonitorAbort \/ MonitorDrain

\* the steps that answer the application: it cancelled the context, it called Close
MonitorStopped ==
    \/ MonitorCtxDone \/ MonitorLoopCtxDone \/ MonitorErrClosed

\* ------------------------------------------------------------- callers
\* the monitor holds c.subMux (shared) for the whole of republishSubscription
SubMuxHeld == mpc = "rp_loop" \/ subMux # 0

\* Connect, and the start of the monitor goroutine
AppConnect(watched) ==
    /\ ~panicked
    /\ \E od \in DialOutcomes, os \in CreateOutcomes, oa \in ActivateOutcomes,
          oc \in {NoError, StatusBad} :
         /\ DialPossible(Client, od)
         /\ CreatePossible(Dial(Client, od), os)
         /\ od # "ok" => os = "ok"
         /\ os # "ok" => oa = "ok"
         /\ od # "ok" \/ session = Nil => oc = NoError
         /\ LET c1 == Connect(Client, od, os, oa, oc)
            IN /\ Becomes(c1)
               /\ Returns(watched, Result("Connect", <<>>, c1))
               /\ mpc' = IF mpc = "off" /\ c1.monitorOnce THEN "wait" ELSE mpc
    /\ UNCHANGED <<ctxDone, action, lastErr, mlocal>>

CallConnect == AppConnect(FALSE)

WatchConnect == AppConnect(TRUE)

AppDial(watched) ==
    /\ ~panicked
    /\ \E o \in DialOutcomes :
         /\ DialPossible(Client, o)
         /\ Becomes(Dial(Client, o))
         /\ Returns(watched, Result("Dial", <<>>, Dial(Client, o)))
    /\ UNCHANGED mvars

CallDial == AppDial(FALSE)

WatchDial == AppDial(TRUE)

AppCreateSession(watched) ==
    /\ ~panicked
    /\ \E o \in CreateOutcomes :
         /\ CreatePossible(Client, o)
         /\ Becomes(CreateSession(Client, o))
         /\ Returns(watched, Result("CreateSession", <<>>, CreateSession(Client, o)))
    /\ UNCHANGED mvars

CallCreateSession == AppCreateSession(FALSE)

WatchCreateSession == AppCreateSession(TRUE)

\* the caller activates a Session it got from CreateSession or DetachSession
AppActivateSession(watched) ==
    /\ ~panicked
    /\ \E s \in Sessions, o \in ActivateOutcomes, oc \in {NoError, StatusBad} :
         /\ nonce[s] # "none"
         /\ Becomes(ActivateSession(Client, s, o, oc, oc))
         /\ Returns(watched, Result("ActivateSession", <<s>>, ActivateSession(Client, s, o, oc, oc)))
    /\ UNCHANGED mvars

CallActivateSession == AppActivateSession(FALSE)

WatchActivateSession == AppActivateSession(TRUE)

AppDetachSession(watched) ==
    /\ ~panicked
    /\ Becomes(DetachSession(Client))
    /\ Returns(watched, Result("DetachSession", <<>>, DetachSession(Client)))
    /\ UNCHANGED mvars

CallDetachSession == AppDetachSession(FALSE)

WatchDetachSession == AppDetachSession(TRUE)

AppCloseSession(watched) ==
    /\ ~panicked
    /\ \E o \in {NoError, StatusBad} :
         /\ Becomes(CloseSession(Client, o))
         /\ Returns(watched, Result("CloseSession", <<>>, CloseSession(Client, o)))
    /\ UNCHANGED mvars

CallCloseSession == AppCloseSession(FALSE)

WatchCloseSession == AppCloseSession(TRUE)

AppClose(watched) ==
    /\ ~panicked
    /\ \E o \in {NoError, StatusBad} :
         /\ Becomes(Close(Client, o))
         /\ Returns(watched, Result("Close", <<>>, Close(Client, o)))
    /\ UNCHANGED mvars

CallClose == AppClose(FALSE)

WatchClose == AppClose(TRUE)

AppSubscribe(watched) ==
    /\ ~panicked /\ ~SubMuxHeld
    /\ \E o \in SubscribeOutcomes, rid \in ResponseIDs(Client) :
         /\ SubscribePossible(Client, o)
         /\ o # "ok" => rid = 0
         /\ Becomes(Subscribe(Client, o, rid))
         /\ Returns(watched, Result("Subscribe", <<o, rid>>, Subscribe(Client, o, rid)))
    /\ UNCHANGED mvars

CallSubscribe == AppSubscribe(FALSE)

WatchSubscribe == AppSubscribe(TRUE)

\* the application cancels a subscription
AppCancel(watched) ==
    /\ ~panicked /\ ~SubMuxHeld
    /\ \E id \in Registered(Client) :
         /\ Becomes(SubCancel(Client, subs[id]))
         /\ Returns(watched, Result("Cancel", <<id>>, SubCancel(Client, subs[id])))
    /\ UNCHANGED mvars

CallCancel == AppCancel(FALSE)

WatchCancel == AppCancel(TRUE)

\* a caller in Subscribe: up to the lock (it waits for the lock when it is held), and
\* from the lock on
AppSubscribeLock ==
    /\ ~panicked /\ ~SubMuxHeld
    /\ \E o \in SubscribeOutcomes, rid \in ResponseIDs(Client) :
         /\ SubscribePossible(Client, o)
         /\ o # "ok" => rid = 0
         /\ Becomes(SubscribeLock(Client, o, rid))
    /\ UNCHANGED mvars
    /\ res' = NoResult

AppSubscribeUnlock ==
    /\ ~panicked /\ subMux # 0
    /\ Becomes(SubscribeUnlock(Client))
    /\ UNCHANGED mvars
    /\ res' = NoResult

AppRead(watched) ==
    /\ ~panicked
    /\ \E o \in {NoError, StatusBad}, st \in ResultStatus :
         /\ o # NoError => st = StatusOK
         /\ Becomes(Read(Client, o, st))
         /\ Returns(watched, Result("Read", <<st>>, Read(Client, o, st)))
    /\ UNCHANGED mvars

WatchRead == AppRead(TRUE)

AppWrite(watched) ==
    /\ ~panicked
    /\ \E o \in {NoError, StatusBad}, st \in ResultStatus :
         /\ o # NoError => st = StatusOK
         /\ Becomes(Write(Client, o, st))
         /\ Returns(watched, Result("Write", <<st>>, Write(Client, o, st)))
    /\ UNCHANGED mvars

WatchWrite == AppWrite(TRUE)

\* the caller cancels the context it gave to Connect
CancelContext ==
    /\ ~panicked /\ ~ctxDone
    /\ ctxDone' = TRUE
    /\ UNCHANGED <<cvars, mpc, action, lastErr, mlocal>>
    /\ res' = NoResult

\* ------------------------------------------------------------- environment
\* the open secure channel fails: it reports the error, if c.sechanErr has room, and is dead
ChannelFails ==
    /\ ~panicked /\ sechan # Nil /\ chanSt[sechan] = "open"
    /\ Becomes([Client EXCEPT !.chanSt[sechan] = "dead",
                              !.sechanErr = IF @ < ErrCap /\ ~errClosed THEN @ + 1 ELSE @])
    /\ UNCHANGED mvars
    /\ res' = NoResult

\* the publish loop of a running subscription receives a notification message
PublishArrives ==
    /\ ~panicked /\ subMux = 0 /\ sechan # Nil /\ chanSt[sechan] = "open" /\ session # Nil
    /\ \E i \in Registered(Client) :
         /\ ~paused[subs[i]] /\ lastSeq[subs[i]] < MaxSeq
         /\ Becomes(Publish(Client, subs[i]))
    /\ UNCHANGED mvars
    /\ res' = NoResult

\* The client in operation: the monitor, the subscriptions of the application and the
\* failures of the channel.
Next ==
    \/ Monitor \/ MonitorRepublishTurn
    \/ CallConnect \/ CallSubscribe \/ CallCancel
    \/ ChannelFails \/ PublishArrives

Spec == Init /\ [][Next]_vars

\* The client under the calls of an application that manages the connection and the
\* session itself, closes the client and cancels the context; it has no subscriptions.
NextCalls ==
    \/ Monitor \/ MonitorStopped
    \/ CallConnect \/ CallDial \/ CallCreateSession \/ CallActivateSession
    \/ CallDetachSession \/ CallCloseSession \/ CallClose \/ CancelContext
    \/ ChannelFails

SpecCalls == Init /\ [][NextCalls]_vars

\* The calls of an application that connects, subscribes and closes, on a connection
\* that does not fail, each with what it returns; of the monitor, the steps it can take
\* on such a connection.
NextWatch ==
    \/ WatchConnect \/ WatchClose
    \/ WatchSubscribe \/ WatchCancel
    \/ MonitorErrClosed \/ MonitorReturn

SpecWatch == Init /\ [][NextWatch]_vars

\* The calls of an application that manages its channel and its sessions itself (Dial,
\* CreateSession, ActivateSession, DetachSession, CloseSession), each with what it
\* returns.  No monitor runs: Connect starts it.
NextSession ==
    \/ WatchDial \/ WatchCreateSession \/ WatchActivateSession
    \/ WatchDetachSession \/ WatchCloseSession

SpecSession == Init /\ [][NextSession]_vars

\* The client of an application that connects and then reads and writes, each Read and
\* Write with what it returns, with the monitor and the failures of the channel.
NextRPC ==
    \/ Monitor
    \/ CallConnect \/ WatchRead \/ WatchWrite
    \/ ChannelFails

SpecRPC == Init /\ [][NextRPC]_vars

\* The client in operation, with the calls of Subscribe in the two steps in which the
\* monitor can see them.
NextLock ==
    \/ Monitor \/ MonitorRepublishTurn
    \/ CallConnect \/ AppSubscribeLock \/ AppSubscribeUnlock
    \/ ChannelFails

SpecLock == Init /\ [][NextLock]_vars

\* ------------------------------------------------------------- the initial action
\* the action the supervisor is to choose for the one error it consumed
ExpectedInitialAction(err) ==
    CASE err = EOF -> createSecureChannel
      [] err = ECONNREFUSED -> abortReconnect
      [] err = StatusBadSecureChannelIDInvalid -> createSecureChannel
      [] err = StatusBadSessionIDInvalid -> recreateSession
      [] err = StatusBadSubscriptionIDInvalid -> restoreSubscriptions
      [] OTHER -> createSecureChannel

\* C1: with auto-reconnect enabled, when the monitor has consumed an error and chosen its
\* initial action (it is about to pause the subscriptions), the action is the one the
\* table gives for that error: EOF with the client not Closed, a bad secure channel id,
\* a bad certificate, any other status and any other error recreate the channel,
\* ECONNREFUSED aborts, a bad session id recreates the session, a bad subscription id
\* restores the subscriptions.
InitialActionIsTable ==
    mpc = "pause" => autoReconnect /\ action = ExpectedInitialAction(lastErr)

\* the monitor has chosen recreateSession for a bad session id
InitialActionChosen ==
    mpc = "pause" /\ lastErr = StatusBadSessionIDInvalid /\ action = recreateSession

\* ------------------------------------------------------------- the action graph
RecoveryEdges ==
    {<<none, createSecureChannel>>, <<none, recreateSession>>,
     <<none, restoreSubscriptions>>, <<none, abortReconnect>>,
     <<createSecureChannel, restoreSession>>,
     <<restoreSession, republishSubscriptions>>, <<restoreSession, recreateSession>>,
     <<recreateSession, restoreSubscriptions>>, <<recreateSession, createSecureChannel>>,
     <<republishSubscriptions, none>>, <<republishSubscriptions, recreateSession>>,
     <<restoreSubscriptions, none>>, <<restoreSubscriptions, recreateSession>>}

AllPaused == \A i \in SubIDs : subs[i] # Nil => paused[subs[i]]
NonePaused == \A i \in SubIDs : subs[i] # Nil => ~paused[subs[i]]

\* C3: when the monitor enters the recovery loop (the initial action is chosen, no
\* recovery action has run) every subscription of the registry is paused, and when a
\* recovery is done (action none, state Connected: the monitor drains the error channel
\* and waits again) no subscription of the registry is paused.
PausedOnEntryResumedWhenDone ==
    [][/\ mpc = "pause" /\ mpc' = "loop" => AllPaused'
       /\ mpc' \in {"drain", "wait"} => NonePaused' /\ action' = none]_vars

\* a recovery is done with a subscription in the registry, resumed
DoneWithSubscriptionResumed ==
    mpc = "drain" /\ state = Connected /\ Registered(Client) # {} /\ NonePaused

\* C4, as claimed: a subscription is paused whenever a recovery step works on it: while
\* its messages are republished and when restoreSubscriptions restores it.
StepsRunOnPausedSubscriptions ==
    /\ mpc = "rp_loop" => paused[mlocal.sub]
    /\ mpc = "restore" /\ mlocal.toRestore # <<>> /\ subs[Head(mlocal.toRestore)] # Nil
         => paused[subs[Head(mlocal.toRestore)]]

\* C4, amended: from the pause to the end of the republish loop the monitor resumes no
\* subscription (a paused subscription of the registry stays paused), so transfer and
\* republish run between the pause and the resume; restoreSubscriptions runs after the
\* resume: a subscription it restores is not paused.
RepublishBeforeResumeRestoreAfter ==
    [][/\ mpc \in {"pause", "loop", "dial", "republish", "rp_loop"}
            => \A i \in SubIDs : subs[i] # Nil /\ subs'[i] = subs[i] /\ paused[subs[i]]
                                    => paused'[subs[i]]
       /\ mpc' = "restore" /\ mlocal'.toRestore # <<>>
            /\ subs'[Head(mlocal'.toRestore)] # Nil
            => ~paused'[subs'[Head(mlocal'.toRestore)]]]_vars

\* restoreSubscriptions is about to restore a subscription whose republish failed
RestoreAfterRepublish ==
    /\ mpc = "restore" /\ mlocal.toRestore # <<>> /\ subs[Head(mlocal.toRestore)] # Nil
    /\ action = republishSubscriptions

\* ------------------------------------------------------------- no auto-reconnect
\* C5: with auto-reconnect disabled the monitor only waits, returns and stops: it enters
\* no recovery step (no dial, no session, no transfer, republish or restore), and when it
\* returns after consuming an error its action is abortReconnect, unless the error was
\* an EOF with the state already Closed.  (Of a process that has not died of a panic.)
NoReconnectAborts ==
    ~autoReconnect /\ ~panicked =>
        /\ mpc \in {"off", "wait", "ret", "stopped"}
        /\ action \in {none, abortReconnect}
        /\ mpc = "ret" /\ lastErr # NoError
             => action = abortReconnect
                \/ (lastErr = EOF /\ state = Closed /\ action = none)
        /\ mlocal = NoLocals

\* the monitor consumed an error, aborted and stopped
AbortedAndStopped ==
    ~autoReconnect /\ mpc = "stopped" /\ action = abortReconnect /\ state = Closed

\* C6, as claimed: with auto-reconnect disabled, once the monitor has consumed the error
\* of the closed connection and stopped, the state is Closed and an RPC sent through the
\* client fails with StatusBadServerNotConnected.
RPCAfterAbortNotConnected ==
    ~autoReconnect /\ ~panicked /\ mpc = "stopped" /\ action = abortReconnect
        => /\ state = Closed
           /\ Send(Client, "Read", NoError).ret = StatusBadServerNotConnected

\* ------------------------------------------------------------- one channel, one session
\* channels that were created and not closed
OpenChannels == {k \in Chans : chanSt[k] \in {"new", "open", "dead"}}
OpenConns == {k \in Chans : connSt[k] = "open"}

\* C7: after every step at most one secure channel and one connection are not closed;
\* a channel is only created while the client has none and every earlier one is
\* closed; and the active session only changes from one session to another with the
\* former closed at the server (or through no session: it was detached or closed).
OneChannelOneSession ==
    [][/\ Cardinality(OpenChannels') <= 1
       /\ Cardinality(OpenConns') <= 1
       /\ \A k \in Chans :
            chanSt[k] = "none" /\ chanSt'[k] # "none"
               => sechan = Nil /\ OpenChannels = {} /\ sechan' = k
       /\ session # Nil /\ session' # Nil /\ session' # session
            => sessSt'[session] = "closed" /\ sessSt'[session'] = "active"]_vars

\* the second channel is open, the first closed; the second session is active, the
\* first closed
SecondChannelSecondSession ==
    /\ MaxChan >= 2 /\ chanSt[1] = "closed" /\ chanSt[2] = "open" /\ sechan = 2
    /\ MaxSess >= 2 /\ sessSt[1] = "closed" /\ session = 2

\* ------------------------------------------------------------- the registry
\* C8: after every step each entry of the registry is a subscription whose id is the
\* entry's key (so the id is not 0 and no two entries have the same id), and no step
\* replaces the subscription of an entry by another one.
RegistryEntriesKept ==
    [][/\ \A i \in SubIDs : subs'[i] # Nil => subId'[subs'[i]] # 0 /\ subId'[subs'[i]] = i
       /\ \A i \in SubIDs : subs[i] # Nil /\ subs'[i] # Nil => subs'[i] = subs[i]]_vars

\* two entries, the first subscription restored under another id
TwoEntriesOneRestored ==
    MaxSub >= 2 /\ subs[1] = 2 /\ subs[2] = 1

\* C9: when a CreateSubscriptionResponse with service result OK carries id 0 or an id
\* of the registry, Subscribe returns StatusBadSubscriptionIDInvalid and no
\* subscription, and the registry is as before the call.
SubscribeRejectsBadID ==
    [][res'.op = "Subscribe" /\ res'.arg[1] = "ok"
         /\ res'.reqs # <<>> /\ res'.reqs[1].ok
         /\ (res'.arg[2] = 0 \/ subs[res'.arg[2]] # Nil)
         => /\ res'.ret = StatusBadSubscriptionIDInvalid
            /\ res'.out = Nil
            /\ subs' = subs /\ nextSub' = nextSub]_vars

\* Subscribe has rejected a response that carried the id of an entry
DuplicateRejected ==
    /\ res.op = "Subscribe" /\ res.arg[1] = "ok" /\ res.arg[2] # 0
    /\ res.ret = StatusBadSubscriptionIDInvalid /\ subs[res.arg[2]] # Nil

\* ------------------------------------------------------------- lastSequenceNumber
\* C10, as claimed: no step makes the lastSequenceNumber of a subscription of the
\* registry smaller.
LastSequenceNumberNeverDecreases ==
    [][\A i \in SubIDs :
         subs[i] # Nil /\ subs'[i] = subs[i]
            => lastSeq'[subs[i]] >= lastSeq[subs[i]]]_vars

\* ------------------------------------------------------------- republish
\* C11, as claimed: when a run of sendRepublishRequests ends with BadMessageNotAvailable
\* after the server has retransmitted k messages to a subscription whose
\* lastSequenceNumber was L, the lastSequenceNumber is L + k (seq counts the messages
\* from L on).
RepublishAdvancesLastSequenceNumber ==
    [][\A o \in RepublishOutcomes :
         /\ MonitorRepublishTurnOn(o)
         /\ sendRepublishRequestsTurn(Client, o).ret = NoError
         => lastSeq'[mlocal.sub] = mlocal.seq]_vars

\* C12, as claimed: with a session, a turn whose request succeeds is followed by another
\* turn for the next sequence number; BadMessageNotAvailable ends the run and the
\* subscription is not failed; any other answer ends the run and the monitor takes the
\* subscription as failed to republish: its id joins the ids to restore.
RepublishFailureReported ==
    [][\A o \in RepublishOutcomes :
         session # Nil /\ MonitorRepublishTurnOn(o)
         => LET r == sendRepublishRequestsTurn(Client, o).ret
                id == mlocal.toRepublish[mlocal.done + 1]
            IN /\ r = "continue" => mpc' = "rp_loop" /\ mlocal'.seq = mlocal.seq + 1
               /\ r = NoError => mpc' = "republish" /\ mlocal'.toRestore = mlocal.toRestore
               /\ r \notin {"continue", NoError}
                    => /\ mpc' = "republish"
                       /\ mlocal'.toRestore = Append(mlocal.toRestore, id)]_vars

\* C13: a turn of the republish loop that starts while the client has no session hands
\* no request to the secure channel, and it ends the run: sendRepublishRequests
\* returns StatusBadSessionClosed.
NoSessionEndsRepublish ==
    [][\A o \in RepublishOutcomes :
         session = Nil /\ MonitorRepublishTurnOn(o)
         => LET c1 == sendRepublishRequestsTurn(Client, o)
            IN /\ c1.ret = StatusBadSessionClosed
               /\ c1.reqs = <<>>
               /\ mpc' = "republish" /\ mlocal'.sub = Nil]_vars

\* the republish loop is at a turn and the client has no session
RepublishTurnWithoutSession ==
    ~panicked /\ mpc = "rp_loop" /\ session = Nil /\ sessInit

\* ------------------------------------------------------------- the Dial loop
\* C14, as claimed: while the monitor is in the Dial loop of createSecureChannel, an
\* attempt made when the server accepts the connection and the opening of the secure
\* channel succeeds, whatever the earlier attempts did, so that the monitor leaves the
\* loop for restoreSession.
DialSucceedsWhenServerAccepts ==
    ~panicked /\ mpc = "dial" /\ DialPossible(Client, "ok")
        => Dial(Client, "ok").ret = NoError

\* ------------------------------------------------------------- Close
\* C15, as claimed: a call of Close causes no fault (it does not end in a runtime panic),
\* whatever was called before it, and leaves the client closed.
CloseCausesNoFault ==
    [][res'.op = "Close" => res'.ret # "panic" /\ ~panicked' /\ state' = Closed]_vars

\* the monitor is in a recovery: between the choice of the action and the drain
InRecovery ==
    mpc \in {"pause", "loop", "dial", "republish", "rp_loop", "resume", "restore"}

\* C16, as claimed: once Close has been called (it closes c.sechanErr) while the monitor
\* is in a recovery, no step of the monitor dials a connection, detaches, creates or
\* activates a session, or restores a subscription.
SupervisorStopsAfterClose ==
    [][errClosed /\ ~panicked /\ InRecovery /\ Monitor
         => /\ \A k \in Chans : connSt[k] = "none" => connSt'[k] = "none"
            /\ session' = session /\ sessSt' = sessSt
            /\ subs' = subs /\ subId' = subId]_vars

\* ------------------------------------------------------------- drain
\* C17: a recovery that reaches Done (the action becomes none) goes on to the drain, and
\* when the monitor comes back from a recovery to wait for the next error, no error is
\* buffered on c.sechanErr; a monitor that has aborted never waits for an error again.
ResidualErrorsDrained ==
    [][~panicked' =>
         /\ action # none /\ action' = none => mpc' = "drain"
         /\ mpc \notin {"off", "wait"} /\ mpc' = "wait" => mpc = "drain" /\ sechanErr' = 0
         /\ action = abortReconnect /\ mpc \in {"ret", "stopped"}
              => mpc' \in {"ret", "stopped"} /\ action' = abortReconnect]_vars

\* a recovery has reached Done while an error that the channel produced during the
\* recovery is buffered: the drain is about to discard it
ErrorBufferedWhenRecoveryDone ==
    ~panicked /\ mpc = "drain" /\ action = none /\ state = Connected /\ sechanErr > 0

\* ------------------------------------------------------------- sessions in a recovery
\* C18, as claimed: the restoreSession step after a channel rebuild either keeps the
\* session that was active (it is the active session again, and the monitor goes on to
\* republishSubscriptions) or, when there was none or its activation did not succeed,
\* leaves the client without session and goes on to recreateSession, which creates and
\* activates a new one.
SessionRetainedIffReactivated ==
    [][~panicked' /\ MonitorRestoreSession
         => /\ session = Nil => session' = Nil /\ action' = recreateSession
            /\ session # Nil
                 => \/ session' = session /\ action' = republishSubscriptions
                    \/ session' = Nil /\ action' = recreateSession]_vars

\* ------------------------------------------------------------- ActivateSession, CloseSession
\* C19, as claimed: when the ActivateSessionRequest for s is answered with success, the
\* client sends a CloseSessionRequest for the session that was active, if there was one,
\* and s is the active session afterwards, whatever became of that request; the nonce
\* of s is the one of the response.
ActivateInstallsWhateverClose ==
    [][/\ res'.op = "ActivateSession" /\ res'.reqs # <<>>
       /\ res'.reqs[1].kind = "ActivateSession" /\ res'.reqs[1].ok
       => LET s == res'.arg[1]
          IN /\ session # Nil => /\ Len(res'.reqs) >= 2
                                 /\ res'.reqs[2].kind = "CloseSession"
                                 /\ res'.reqs[2].token = session
             /\ session' = s
             /\ nonce'[s] = "activate"]_vars

\* C20, as claimed: CloseSession sends one CloseSessionRequest for the active session,
\* and the client has no active session afterwards, whether the request succeeded or
\* failed.
CloseSessionClearsWhateverOutcome ==
    [][res'.op = "CloseSession" /\ res'.ret # "panic"
       => /\ session # Nil => /\ Len(res'.reqs) = 1
                              /\ res'.reqs[1].kind = "CloseSession"
                              /\ res'.reqs[1].token = session
          /\ session' = Nil]_vars

\* ------------------------------------------------------------- authentication token
\* C21, as claimed: of the requests a call hands to the secure channel, a
\* CreateSessionRequest carries no authentication token and every other request
\* carries the token of the session it concerns; the CloseSessionRequest that
\* ActivateSession(s) sends for s after the close of the previous session failed
\* carries the token of s.
RequestsCarrySessionToken ==
    [][\A i \in 1..Len(res'.reqs) :
         LET r == res'.reqs[i]
         IN /\ r.kind = "CreateSession" => r.token = Nil
            /\ r.kind # "CreateSession" => r.token # Nil
            /\ res'.op = "ActivateSession" /\ i = 3 => r.token = res'.arg[1]]_vars

\* ------------------------------------------------------------- no secure channel
\* C22, as claimed: while the client has no open secure channel, before the first Dial
\* or in the Dial loop of createSecureChannel, an RPC through Send, CreateSession and
\* ActivateSession of a session fail with StatusBadServerNotConnected and hand no
\* request to a channel.
NoChannelNotConnected ==
    /\ ~panicked /\ (NumConns(Client) = 0 \/ mpc = "dial")
    /\ (sechan = Nil \/ chanSt[sechan] # "open")
    => /\ LET c1 == Send(Client, "Read", NoError)
          IN c1.ret = StatusBadServerNotConnected /\ c1.reqs = <<>>
       /\ LET c2 == CreateSession(Client, "ok")
          IN c2.ret = StatusBadServerNotConnected /\ c2.reqs = <<>> /\ c2.out = Nil
       /\ \A s \in Sessions :
            nonce[s] # "none"
            => LET c3 == ActivateSession(Client, s, "ok", NoError, NoError)
               IN c3.ret = StatusBadServerNotConnected /\ c3.reqs = <<>>

\* ------------------------------------------------------------- CreateSession
\* C23, as claimed: when the CreateSessionRequest is answered with a
\* CreateSessionResponse, CreateSession returns no error and a Session that holds what
\* the response carried, whether the server's signature verifies or not.
CreateSessionReturnsSession ==
    [][res'.op = "CreateSession" /\ res'.reqs # <<>> /\ res'.reqs[1].ok
         => /\ res'.ret = NoError
            /\ res'.out # Nil
            /\ nonce'[res'.out] = "create"]_vars

\* ------------------------------------------------------------- per-operation results
\* C24: a Read or Write whose response carries a result with a status that is not OK
\* returns that response, with the status as the server sent it, and no error; the
\* client and its monitor are as before the call (no error is signalled, no recovery
\* starts, state, channel and session are unchanged), and an RPC that follows and
\* that the server answers succeeds.
PerOperationStatusIsNoError ==
    [][/\ res'.op \in {"Read", "Write"} /\ res'.reqs # <<>> /\ res'.reqs[1].ok
       /\ res'.arg[1] # StatusOK
       => /\ res'.ret = NoError
          /\ res'.out = res'.arg
          /\ UNCHANGED <<cvars, mvars>>
          /\ Send(Client, res'.op, NoError).ret = NoError]_vars

\* a Read of a connected client has returned a response whose result is
\* BadDataTypeIDUnknown
ReadReturnedBadResult ==
    /\ res.op = "Read" /\ res.ret = NoError /\ res.out = <<StatusBadDataTypeIDUnknown>>
    /\ state = Connected /\ mpc = "wait" /\ sechanErr = 0

\* ------------------------------------------------------------- subscribe, then cancel
\* C25: when Subscribe has succeeded, the subscription is in the registry under the id
\* of the response, and forgetting that id next (as the cancel of the subscription
\* does) gives the registry the entries, and so the size, it had before the Subscribe.
SubscribeThenCancelRestoresRegistry ==
    [][res'.op = "Subscribe" /\ res'.ret = NoError
         => LET id == res'.arg[2]
                h == res'.out
            IN /\ subs'[id] = h /\ subs[id] = Nil
               /\ forgetSubscription(Client', id).subs = subs
               /\ SubCancel(Client', h).subs = subs
               /\ Cardinality(Registered(forgetSubscription(Client', id)))
                    = Cardinality(Registered(Client))]_vars

\* a subscription was created and cancelled, and the registry is empty again
SubscribedAndCancelled ==
    res.op = "Cancel" /\ nextSub > 0 /\ Registered(Client) = {}

\* ------------------------------------------------------------- the monitor stops
\* what a step does when the monitor leaves its select without a recovery, and when
\* the context is cancelled during a recovery
StopsAsClaimed ==
    /\ mpc = "wait" /\ mpc' # "wait" /\ sechanErr' = sechanErr
         => mpc' = "ret" /\ action' = none /\ (ctxDone \/ errClosed)
    /\ mpc = "wait" /\ sechanErr' < sechanErr /\ lastErr' = EOF /\ state = Closed
         => mpc' = "ret" /\ action' = none
    /\ ctxDone /\ mpc = "loop" => mpc' \in {"loop", "ret"} /\ action' = action
    /\ ctxDone /\ MonitorDial => mpc' \in {"loop", "ret"}
    /\ mpc = "ret" => mpc' \in {"ret", "stopped"}
    /\ mpc = "stopped" => mpc' = "stopped"

\* C26, as claimed: the monitor stops without a recovery when the context is cancelled,
\* when c.sechanErr is closed and when it reads EOF with the state Closed; a
\* cancellation during a recovery stops it at the next action or after the failed
\* Dial; and in every state in which the monitor has stopped the state is Closed.
StoppedSupervisorMeansClosed ==
    [][~panicked' => StopsAsClaimed /\ (mpc' = "stopped" => state' = Closed)]_vars

\* C26, amended: the monitor stops in those ways, and the step in which it stops
\* stores Closed; it never runs again, whatever the application calls afterwards.
SupervisorStopsAndStoresClosed ==
    [][~panicked' => StopsAsClaimed
                     /\ (mpc = "ret" /\ mpc' = "stopped" => state' = Closed)]_vars

\* the monitor has stopped in the middle of a recovery, on the cancelled context
StoppedInRecovery ==
    /\ ~panicked /\ mpc = "stopped" /\ ctxDone /\ state = Closed
    /\ action \notin {none, abortReconnect}

\* ------------------------------------------------------------- cycles of the actions
\* C27, as claimed: the supervisor does not go from recreateSession to
\* restoreSubscriptions and back to recreateSession without a pass through
\* createSecureChannel.  A recovery begins when the channel has failed, and only
\* createSecureChannel replaces a failed channel: a supervisor that is at
\* restoreSubscriptions with an open channel has passed createSecureChannel and,
\* after it, recreateSession, the only action that leads to restoreSubscriptions.  Its
\* step back to recreateSession closes the cycle.
NoCycleWithoutCreateSecureChannel ==
    [][~panicked' /\ action = restoreSubscriptions
         /\ sechan # Nil /\ chanSt[sechan] = "open"
         => action' # recreateSession]_vars

\* the actions in the order in which a recovery passes them when it does not go back
\* to createSecureChannel
ActionRank(a) ==
    CASE a = createSecureChannel -> 5
      [] a = restoreSession -> 4
      [] a = republishSubscriptions -> 3
      [] a = recreateSession -> 2
      [] a = restoreSubscriptions -> 2
      [] a = abortReconnect -> 1
      [] a = none -> 0

\* C27, amended: every change of the action that does not lead to createSecureChannel
\* goes down in that order, except the changes between recreateSession and
\* restoreSubscriptions; so a sequence of actions that repeats passes through
\* createSecureChannel or goes round between recreateSession and restoreSubscriptions.
CyclesPassCreateSecureChannelOrRecreate ==
    [][~panicked' /\ action # none /\ action' # action /\ action' # createSecureChannel
         => \/ ActionRank(action') < ActionRank(action)
            \/ {action, action'} = {recreateSession, restoreSubscriptions}]_vars

\* the recovery has opened a channel and created a session on it, and is at
\* recreateSession again
RecreateSessionAgain ==
    /\ ~panicked /\ mpc = "loop" /\ action = recreateSession
    /\ sechan # Nil /\ chanSt[sechan] = "open"
    /\ NumSessions(Client) = 2 /\ session = 2

\* ------------------------------------------------------------- what is restored
\* the ids in a list
Ids(s) == {s[k] : k \in 1..Len(s)}

\* C28, as claimed: when the republish loop of the restoreSubscriptions action is over
\* and one of the ids it ranged over is among the ids to restore (its republish
\* failed), all the ids it ranged over are among the ids to restore.
AllRepublishTargetsRestored ==
    ~panicked /\ mpc = "resume" /\ action = restoreSubscriptions
        /\ Ids(mlocal.toRepublish) \cap Ids(mlocal.toRestore) # {}
        => Ids(mlocal.toRepublish) \subseteq Ids(mlocal.toRestore)

\* C28, amended: a step of the republish loop of the restoreSubscriptions action
\* leaves the ids to restore as they are, or adds the one id whose republish it has
\* ended with an error: the lookup of the id in c.subs failed, or
\* republishSubscription returned an error for the answer of the server.
OnlyFailedRepublishTargetsRestored ==
    [][~panicked' /\ action = restoreSubscriptions /\ mpc \in {"republish", "rp_loop"}
         => /\ mlocal'.toRepublish = mlocal.toRepublish
            /\ \/ mlocal'.toRestore = mlocal.toRestore
               \/ /\ mlocal.done < Len(mlocal.toRepublish)
                  /\ mlocal'.done = mlocal.done + 1
                  /\ mlocal'.toRestore =
                        Append(mlocal.toRestore, mlocal.toRepublish[mlocal.done + 1])
                  /\ mpc = "republish" => subs[mlocal.toRepublish[mlocal.done + 1]] = Nil
                  /\ mpc = "rp_loop"
                       => \E o \in RepublishOutcomes :
                            /\ MonitorRepublishTurnOn(o)
                            /\ republishSubscriptionResult(
                                  sendRepublishRequestsTurn(Client, o).ret) # NoError]_vars

\* the republish loop is over: the republish of one id failed, that of another did not
RepublishFailedForOneOfTwo ==
    /\ ~panicked /\ mpc = "resume" /\ action = restoreSubscriptions
    /\ Len(mlocal.toRepublish) = 2
    /\ Cardinality(Ids(mlocal.toRepublish) \cap Ids(mlocal.toRestore)) = 1

\* ------------------------------------------------------------- the lock of the registry
\* the steps of the monitor that read c.subs
MonitorReadsSubs ==
    \/ MonitorPause \/ MonitorResume
    \/ MonitorRepublishSubscriptions \/ MonitorTransfer
    \/ MonitorRepublishNext /\ mlocal.done < Len(mlocal.toRepublish)
    \/ MonitorRestore /\ mlocal.toRestore # <<>>

\* C29, as claimed: while a caller in Subscribe holds c.subMux exclusively, the monitor
\* reads nothing of the registry.
RegistryReadUnderLock ==
    [][subMux # 0 => ~MonitorReadsSubs]_vars

\* ------------------------------------------------------------- the transfer
\* C30, as claimed: whatever the TransferSubscriptions request comes back with, the
\* step of the restoreSubscriptions action that makes the two lists ends without a
\* fault, and each id of the registry is in exactly one of the lists.
TransferSplitsEveryId ==
    [][MonitorTransfer
         => /\ ~panicked'
            /\ \A id \in Registered(Client) :
                 (id \in Ids(mlocal'.toRepublish)) # (id \in Ids(mlocal'.toRestore))]_vars

====
